---------------------------- MODULE Spec2Model ----------------------------
(***************************************************************************)
(* SmartMirror-Host: the CAN-triggered eye detection node.                 *)
(*                                                                         *)
(* main.py waits for a trigger message on the CAN bus, runs a bounded      *)
(* detection loop over camera frames (eye_utils.py), normalizes the eye    *)
(* midpoint to 0..100 and sends it back on the bus.                        *)
(*                                                                         *)
(* Specifications:                                                         *)
(*   Spec      the trigger/response machine of main.py                     *)
(*   SpecEyes  process_detected_eyes applied to drawn eye candidates       *)
(*   SpecNorm  the normalization and packing of send_eye_coordinates       *)
(*             applied to drawn coordinates and frame sizes                *)
(***************************************************************************)
EXTENDS Integers, Sequences, FiniteSets, TLC

VARIABLES
    pc,            \* where the process is (see Spec, SpecEyes, SpecNorm)
    system,        \* platform.system() as get_camera sees it
    data_id,       \* CAN_CONFIG['data_id'] of this run
    startup,       \* what could be opened when main started (history)
    max_attempts,  \* EYE_DETECTION['max_detection_attempts'] of this run
    rxq,           \* the transport's receive buffer: messages, oldest first
    arrived,       \* messages delivered to the node so far (bounds the run)
    consumed,      \* trigger messages consumed by the main loop so far
    attempt,       \* process_eye_detection: attempt
    eye_midpoint,  \* process_eye_detection / main: eye_midpoint (None or <<x, y>>)
    cycle,         \* what happened in the current detection cycle (history)
    camOpen,       \* camera handles opened and not yet released
    sent,          \* messages put on the bus, oldest first
    args,          \* SpecEyes, SpecNorm: the arguments of the function applied
    ret            \* SpecEyes, SpecNorm: what the function returned

vars == <<pc, system, data_id, startup, max_attempts, rxq, arrived, consumed,
          attempt, eye_midpoint, cycle, camOpen, sent, args, ret>>

\* Python's None; a midpoint is <<x, y>> and a message <<arbitration_id>>
None == <<>>

-----------------------------------------------------------------------------
(* Bounds of the model *)

\* messages the environment delivers in one run
MaxArrivals == 3
\* largest value of max_detection_attempts a run is configured with
MaxAttempts == 2
\* most eye candidates the detector returns for one face (SpecEyes)
MaxEyes == 4
\* largest pixel coordinate drawn in SpecNorm besides the samples
MaxCoord == 60
MaxFaces == 3

-----------------------------------------------------------------------------
(* config.py *)

TRIGGER_ID == 512
DATA_ID == 256
NO_EYES_DETECTED == <<-1, -1>>
\* eye_aspect_ratio_min = 0.5 and eye_aspect_ratio_max = 2.0, as fractions
EYE_ASPECT_RATIO_MIN == <<1, 2>>
EYE_ASPECT_RATIO_MAX == <<2, 1>>

-----------------------------------------------------------------------------
(* Double precision arithmetic of  int((x / width) * 100)                  *)
(*                                                                         *)
(* A positive double is [m, e]: m a sequence of 53 bits, most significant  *)
(* first and 1, and the value is m * 2^e.  Operations round to nearest,    *)
(* ties to even, as IEEE 754 does.  Bit sequences are worked on nine bits  *)
(* at a time, so that every intermediate number stays a small integer.     *)

\* 52 stored bits and the leading one
MantissaBits == 52 + 1

Last(s) == s[Len(s)]
Front(s) == SubSeq(s, 1, Len(s) - 1)

\* the n low bits of v, most significant first
FixedBits(v, n) == [j \in 1..n |-> (v \div 2^(n - j)) % 2]

RECURSIVE NatToBits(_)
NatToBits(n) == IF n = 0 THEN <<>> ELSE NatToBits(n \div 2) \o <<n % 2>>

RECURSIVE BitsToNat(_)
BitsToNat(b) == IF b = <<>> THEN 0 ELSE 2 * BitsToNat(Front(b)) + Last(b)

\* the bits of b + 1 (one bit longer when b is all ones)
IncBits(b) ==
    LET zeros == {i \in 1..Len(b) : b[i] = 0}
    IN  IF zeros = {} THEN <<1>> \o [i \in 1..Len(b) |-> 0]
        ELSE LET p == CHOOSE i \in zeros : \A j \in zeros : j <= i
             IN  [i \in 1..Len(b) |->
                     IF i < p THEN b[i] ELSE IF i = p THEN 1 ELSE 0]

\* the bits of b * c + carry, for a small natural c
RECURSIVE MulBits(_, _, _)
MulBits(b, c, carry) ==
    IF b = <<>> THEN NatToBits(carry)
    ELSE LET n == IF Len(b) < 9 THEN Len(b) ELSE 9
             t == BitsToNat(SubSeq(b, Len(b) - n + 1, Len(b))) * c + carry
         IN  MulBits(SubSeq(b, 1, Len(b) - n), c, t \div 2^n)
               \o FixedBits(t % 2^n, n)

\* 9 * n more quotient bits of r / den (0 <= r < den) and the remainder left
RECURSIVE DivBits(_, _, _)
DivBits(r, den, n) ==
    IF n = 0 THEN [bits |-> <<>>, rem |-> r]
    ELSE LET t == r * 2^9
             rest == DivBits(t % den, den, n - 1)
         IN  [bits |-> FixedBits(t \div den, 9) \o rest.bits, rem |-> rest.rem]

\* b (at least 53 bits, exponent e) rounded to 53 bits; sticky says that
\* nonzero digits follow b
RoundToDouble(b, e, sticky) ==
    LET keep == SubSeq(b, 1, MantissaBits)
        tail == SubSeq(b, MantissaBits + 1, Len(b))
        drop == Len(tail)
        guard == IF drop = 0 THEN 0 ELSE tail[1]
        rest == sticky \/ \E i \in 2..drop : tail[i] = 1
        up == guard = 1 /\ (rest \/ Last(keep) = 1)
        r == IF up THEN IncBits(keep) ELSE keep
    IN  IF Len(r) > MantissaBits
        THEN [m |-> Front(r), e |-> e + drop + 1]
        ELSE [m |-> r, e |-> e + drop]

RECURSIVE ShiftUp(_, _)
ShiftUp(w, x) == IF 2 * w <= x THEN 1 + ShiftUp(2 * w, x) ELSE 0

RECURSIVE ShiftDown(_, _)
ShiftDown(x, w) == IF x >= w THEN 0 ELSE 1 + ShiftDown(2 * x, w)

\* the double x / w of two positive integers: 1 <= num / den < 2, the
\* leading bit and 54 quotient bits, rounded
FloatDiv(x, w) ==
    LET k == IF x >= w THEN ShiftUp(w, x) ELSE 0 - ShiftDown(x, w)
        num == IF k < 0 THEN x * 2^(0 - k) ELSE x
        den == IF k > 0 THEN w * 2^k ELSE w
        q == DivBits(num - den, den, 6)
    IN  RoundToDouble(<<1>> \o q.bits, k - Len(q.bits), q.rem # 0)

\* the double f * c for a small natural c
FloatMul(f, c) == RoundToDouble(MulBits(f.m, c, 0), f.e, FALSE)

\* int(f): the integer part of a positive double
FloatToInt(f) ==
    LET ib == Len(f.m) + f.e
    IN  IF ib <= 0 THEN 0
        ELSE IF ib <= Len(f.m) THEN BitsToNat(SubSeq(f.m, 1, ib))
        ELSE BitsToNat(f.m) * 2^(f.e)

\* int((x / width) * 100): truncation toward zero of the double product
Scale(x, width) ==
    IF x = 0 THEN 0
    ELSE IF x > 0 THEN FloatToInt(FloatMul(FloatDiv(x, width), 100))
    ELSE 0 - FloatToInt(FloatMul(FloatDiv(0 - x, width), 100))

Max(a, b) == IF a >= b THEN a ELSE b
Min(a, b) == IF a <= b THEN a ELSE b

\* the clamp without its lower bound
ClampAbove(v) == Min(100, v)
\* max(0, min(100, v))
Clamp(v) == Max(0, Min(100, v))

\* send_eye_coordinates, lines 79-85
Normalize(x, y, width, height) ==
    <<Clamp(Scale(x, width)), Clamp(Scale(y, height))>>

-----------------------------------------------------------------------------
(* struct.pack('ii', a, b): two 32-bit signed integers, little endian,     *)
(* two's complement, 8 bytes                                               *)

PackInt(v) == [i \in 1..4 |-> (v \div 256^(i - 1)) % 256]

pack(a, b) == PackInt(a) \o PackInt(b)

UnpackInt(b) ==
    b[1] + 256 * b[2] + 65536 * b[3]
      + 16777216 * (IF b[4] >= 128 THEN b[4] - 256 ELSE b[4])

\* what the receiver decodes from a payload
unpack(data) == <<UnpackInt(SubSeq(data, 1, 4)), UnpackInt(SubSeq(data, 5, 8))>>

-----------------------------------------------------------------------------
(* eye_utils.py                                                            *)
(*                                                                         *)
(* A rectangle is <<x, y, w, h>>.  A frame is what the two cascade         *)
(* classifiers return on it (after cv2.flip): a sequence of faces in       *)
(* detector-return order, each [rect, eyes] with eyes the candidates the   *)
(* eye classifier returns in the face's region of interest.                *)

\* a <= b for fractions <<n, d>> with d > 0
FracLeq(a, b) == a[1] * b[2] <= b[1] * a[2]

\* the filter with both bounds exclusive
AspectStrict(eye) ==
    /\ ~FracLeq(<<eye[3], eye[4]>>, EYE_ASPECT_RATIO_MIN)
    /\ ~FracLeq(EYE_ASPECT_RATIO_MAX, <<eye[3], eye[4]>>)
\* process_detected_eyes: min <= ew / eh <= max.  Both configured bounds
\* are doubles that 0.5 and 2.0 denote exactly and the division rounds
\* monotonically, so the comparison of the doubles is that of the fractions.
AspectOk(eye) ==
    /\ FracLeq(EYE_ASPECT_RATIO_MIN, <<eye[3], eye[4]>>)
    /\ FracLeq(<<eye[3], eye[4]>>, EYE_ASPECT_RATIO_MAX)

\* list.sort(key=lambda eye: eye[0]): stable, ascending x
RECURSIVE SortByX(_)
SortByX(s) ==
    IF s = <<>> THEN <<>>
    ELSE LET e == Last(s)
             t == SortByX(Front(s))
             k == Cardinality({i \in 1..Len(t) : t[i][1] <= e[1]})
         IN  SubSeq(t, 1, k) \o <<e>> \o SubSeq(t, k + 1, Len(t))

\* process_detected_eyes: valid_eyes after the filter and the sort
valid_eyes(eyes) == SortByX(SelectSeq(eyes, AspectOk))

\* the count test without its upper bound
CountAtLeastOne(n) == 1 <= n
\* process_detected_eyes: 1 <= len(valid_eyes) <= 2
CountOk(n) == 1 <= n /\ n <= 2

\* process_detected_eyes: the center of an eye in full-frame coordinates
EyeCenter(eye, face_x, roi_y) ==
    <<face_x + eye[1] + eye[3] \div 2, roi_y + eye[2] + eye[4] \div 2>>

\* the left eye's center taken for the midpoint
MidpointFirst(eye_centers) == eye_centers[1]
\* process_detected_eyes: the midpoint of one or two eye centers
Midpoint(eye_centers) ==
    IF Len(eye_centers) = 2
    THEN <<(eye_centers[1][1] + eye_centers[2][1]) \div 2,
           (eye_centers[1][2] + eye_centers[2][2]) \div 2>>
    ELSE eye_centers[1]

process_detected_eyes(eyes, face_x, roi_y) ==
    LET valid == valid_eyes(eyes)
        eye_centers == [i \in 1..Len(valid) |->
                            EyeCenter(valid[i], face_x, roi_y)]
    IN  IF CountOk(Len(valid)) THEN Midpoint(eye_centers) ELSE None

\* detect_eyes: roi_y = y + int(h * 0.2).  The double h * 0.2 truncates to
\* h div 5 for every height a frame can have.
RoiY(rect) == rect[2] + rect[4] \div 5

\* the scan left at the first face examined, whatever it yields
FaceEndsScan(m) == TRUE
\* detect_eyes, line 90: a midpoint tuple is true, None is not
FaceYields(m) == m # None

\* detect_eyes, lines 68-94: the loop over faces, with the faces whose
\* eyes were examined counted
RECURSIVE scan_faces(_, _)
scan_faces(faces, examined) ==
    IF faces = <<>> THEN [midpoint |-> None, examined |-> examined]
    ELSE LET face == Head(faces)
             m == process_detected_eyes(face.eyes, face.rect[1],
                                        RoiY(face.rect))
         IN  IF FaceYields(m)
             THEN [midpoint |-> m, examined |-> examined + 1]
             ELSE scan_faces(Tail(faces), examined + 1)

\* detect_eyes: the midpoint of the first face that yields one, else None
detect_eyes(faces) == scan_faces(faces, 0).midpoint

-----------------------------------------------------------------------------
(* The inputs of the model *)

\* platform.system(): one platform get_camera supports, and one it does not
Systems == {"Linux", "FreeBSD"}

\* values CAN_CONFIG['data_id'] is configured with: the default and another
DataIds == {DATA_ID, DATA_ID + 1}

\* arbitration IDs of the messages other nodes put on the bus
MessageIds == {TRIGGER_ID, TRIGGER_ID + 1}

\* width and height of the frames the camera delivers
FrameSizes == {<<640, 480>>, <<100, 100>>}

\* frames: no face; a face with two eyes; an ambiguous face (three valid
\* eyes) followed by a face with one eye; a face whose candidates all fail
\* the aspect-ratio filter
NoFace == <<>>
TwoEyes ==
    <<[rect |-> <<100, 80, 120, 120>>,
       eyes |-> <<(<<76, 12, 24, 16>>), (<<20, 10, 24, 16>>)>>]>>
AmbiguousThenOne ==
    <<[rect |-> <<300, 200, 90, 90>>,
       eyes |-> <<(<<5, 5, 20, 12>>), (<<35, 6, 20, 12>>), (<<60, 5, 20, 12>>)>>],
      [rect |-> <<10, 5, 40, 45>>,
       eyes |-> <<(<<9, 33, 20, 20>>), (<<2, 3, 30, 10>>)>>]>>
BadShapes ==
    <<[rect |-> <<100, 80, 120, 120>>,
       eyes |-> <<(<<20, 10, 30, 10>>), (<<70, 10, 8, 20>>)>>]>>
Frames == {NoFace, TwoEyes, AmbiguousThenOne, BadShapes}

\* eye candidates drawn in SpecEyes: on both inclusive bounds, inside, and
\* outside on either side; two share their x
EyeRects ==
    { <<10, 5, 20, 10>>, <<50, 7, 10, 20>>, <<30, 4, 15, 11>>,
      <<70, 9, 21, 10>>, <<20, 3, 9, 19>>, <<10, 8, 13, 12>> }

RECURSIVE SeqsUpTo(_, _)
SeqsUpTo(S, n) ==
    IF n = 0 THEN {<<>>}
    ELSE LET shorter == SeqsUpTo(S, n - 1)
         IN  shorter \cup {Append(s, e) : s \in shorter, e \in S}

\* coordinates drawn in SpecNorm
XCoords == (-1..MaxCoord) \cup {-640, -7, 320, 639, 640, 700}
YCoords == {-480, -1, 0, 57, 240, 479, 480}

\* the faces of the frames above, drawn in SpecFaces
Faces == {TwoEyes[1], AmbiguousThenOne[1], AmbiguousThenOne[2], BadShapes[1]}

-----------------------------------------------------------------------------
(* main.py: the trigger/response machine                                   *)
(*                                                                         *)
(* pc: "start"   main before the loop                                      *)
(*     "recv"    blocked in can_bus.recv() (Idle)                          *)
(*     "detect"  process_eye_detection called (Detecting)                  *)
(*     "loop"    at the test of the detection loop                         *)
(*     "respond" process_eye_detection returned (Responding)               *)
(*     "exit"    sys.exit(1)                                               *)

NewCycle ==
    [ camera |-> "none",      \* process_eye_detection's camera: opened, failed
      reads |-> 0,            \* camera.read() calls of the loop
      detects |-> 0,          \* detect_eyes calls
      sleeps |-> 0,           \* time.sleep calls
      read_failed |-> FALSE,  \* a camera.read() of the loop returned ret = False
      first |-> None,         \* the first midpoint a detect_eyes call returned
      first_at |-> 0,         \* the reads made when it was returned
      responses |-> 0,        \* messages sent on the bus
      send_calls |-> 0,       \* can_bus.send calls
      outcome |-> "none",     \* how send_eye_coordinates ended
      reported |-> FALSE ]    \* send_eye_coordinates printed an error

\* before main runs: nothing has been tried
NotStarted == [bus_ok |-> FALSE, cascades_ok |-> FALSE, camera_ok |-> FALSE]

Init ==
    /\ pc = "start"
    /\ system \in Systems
    /\ data_id \in DataIds
    /\ startup = NotStarted
    /\ max_attempts \in 1..MaxAttempts
    /\ rxq = <<>>
    /\ arrived = 0
    /\ consumed = 0
    /\ attempt = 0
    /\ eye_midpoint = None
    /\ cycle = NewCycle
    /\ camOpen = 0
    /\ sent = <<>>
    /\ args = <<>>
    /\ ret = None

\* main, lines 143-156: init_can_interface and the cascade check end in
\* sys.exit(1) when the bus cannot be opened or a classifier is empty
Startup ==
    /\ pc = "start"
    /\ \E bus_ok, cascades_ok, camera_ok \in BOOLEAN :
          /\ startup' = [bus_ok |-> bus_ok, cascades_ok |-> cascades_ok,
                         camera_ok |-> camera_ok]
          /\ pc' = IF bus_ok /\ cascades_ok THEN "recv" ELSE "exit"
    /\ UNCHANGED <<system, data_id, max_attempts, rxq, arrived, consumed, attempt,
                   eye_midpoint, cycle, camOpen, sent, args, ret>>

\* the bus: another node's message reaches the receive buffer
Deliver ==
    /\ pc \notin {"start", "exit"}
    /\ arrived < MaxArrivals
    /\ \E id \in MessageIds : rxq' = Append(rxq, <<id>>)
    /\ arrived' = arrived + 1
    /\ UNCHANGED <<pc, system, data_id, startup, max_attempts, consumed, attempt, eye_midpoint,
                   cycle, camOpen, sent, args, ret>>

\* the test of line 162 without the comparison of the arbitration ID
IsAnyMessage(message) == message # None
\* main, line 162
IsTrigger(message) == message # None /\ message[1] = TRIGGER_ID

\* recv() served while a cycle is running, as a listener thread would
RecvAnytime ==
    /\ pc \in {"recv", "detect", "loop", "respond"}
    /\ rxq # <<>>
    /\ rxq' = Tail(rxq)
    /\ IF IsTrigger(Head(rxq))
       THEN /\ pc' = "detect"
            /\ consumed' = consumed + 1
            /\ cycle' = NewCycle
       ELSE UNCHANGED <<pc, consumed, cycle>>
    /\ UNCHANGED <<system, data_id, startup, max_attempts, arrived, attempt, eye_midpoint,
                   camOpen, sent, args, ret>>
\* main, lines 160-163: recv() returns the oldest buffered message
Recv ==
    /\ pc = "recv"
    /\ rxq # <<>>
    /\ rxq' = Tail(rxq)
    /\ IF IsTrigger(Head(rxq))
       THEN /\ pc' = "detect"
            /\ consumed' = consumed + 1
            /\ cycle' = NewCycle
       ELSE UNCHANGED <<pc, consumed, cycle>>
    /\ UNCHANGED <<system, data_id, startup, max_attempts, arrived, attempt, eye_midpoint,
                   camOpen, sent, args, ret>>

\* main, lines 160-162: recv() returns None
RecvNone ==
    /\ pc = "recv"
    /\ arrived < MaxArrivals
    /\ arrived' = arrived + 1
    /\ IF IsTrigger(None)
       THEN /\ pc' = "detect"
            /\ consumed' = consumed + 1
            /\ cycle' = NewCycle
       ELSE UNCHANGED <<pc, consumed, cycle>>
    /\ UNCHANGED <<system, data_id, startup, max_attempts, rxq, attempt, eye_midpoint,
                   camOpen, sent, args, ret>>

\* process_eye_detection, lines 107-115: get_camera exits on a platform it
\* does not support; a camera that did not open returns None
\* the attempt counter left at the value the cycle before ended with
KeptAttempt(previous) == previous
\* process_eye_detection, line 114
FirstAttempt(previous) == 0

\* opened: camera.isOpened() of line 108
OpenCameraWith(opened) ==
    /\ pc = "detect"
    /\ IF system \notin {"Darwin", "Linux", "Windows"}
       THEN /\ pc' = "exit"
            /\ UNCHANGED <<attempt, eye_midpoint, cycle, camOpen>>
       ELSE IF opened
            THEN /\ camOpen' = camOpen + 1
                 /\ attempt' = FirstAttempt(attempt)
                 /\ eye_midpoint' = None
                 /\ cycle' = [cycle EXCEPT !.camera = "opened"]
                 /\ pc' = "loop"
            ELSE /\ eye_midpoint' = None
                 /\ cycle' = [cycle EXCEPT !.camera = "failed"]
                 /\ pc' = "respond"
                 /\ UNCHANGED <<attempt, camOpen>>
    /\ UNCHANGED <<system, data_id, startup, max_attempts, rxq, arrived, consumed, sent,
                   args, ret>>

\* the loop test off by one, and the loop test without the stop on success
LoopCondOneMore(a, max, mid) == a <= max /\ mid = None
LoopCondNoStop(a, max, mid) == a < max
\* process_eye_detection, line 117
LoopCond(a, max, mid) == a < max /\ mid = None

\* the counter of line 133 left as it is
SameAttempt(a) == a
\* process_eye_detection, line 133
NextAttempt(a) == a + 1

\* process_eye_detection, lines 117-134, and 137-140 after the break: one
\* pass of the loop; ok and frame are what camera.read() of line 119 returns
LoopPassWith(ok, frame) ==
    /\ pc = "loop"
    /\ LoopCond(attempt, max_attempts, eye_midpoint)
    /\ IF ~ok
       THEN /\ cycle' = [cycle EXCEPT !.reads = @ + 1,
                                      !.read_failed = TRUE]
            /\ camOpen' = camOpen - 1
            /\ pc' = "respond"
            /\ UNCHANGED <<attempt, eye_midpoint>>
       ELSE /\ eye_midpoint' = detect_eyes(frame)
            /\ attempt' = NextAttempt(attempt)
            /\ cycle' = [cycle EXCEPT
                           !.reads = @ + 1,
                           !.detects = @ + 1,
                           !.sleeps = @ + 1,
                           !.first = IF @ = None THEN detect_eyes(frame)
                                     ELSE @,
                           !.first_at =
                               IF cycle.first = None
                                  /\ detect_eyes(frame) # None
                               THEN cycle.reads + 1 ELSE @]
            /\ UNCHANGED <<camOpen, pc>>
    /\ UNCHANGED <<system, data_id, startup, max_attempts, rxq, arrived, consumed, sent,
                   args, ret>>

OpenCamera == \E opened \in BOOLEAN : OpenCameraWith(opened)

LoopPass == \E ok \in BOOLEAN, frame \in Frames : LoopPassWith(ok, frame)

\* process_eye_detection, lines 117 and 137-140: the loop ends, the camera
\* is released and eye_midpoint returned
LoopExit ==
    /\ pc = "loop"
    /\ ~LoopCond(attempt, max_attempts, eye_midpoint)
    /\ camOpen' = camOpen - 1
    /\ pc' = "respond"
    /\ UNCHANGED <<system, data_id, startup, max_attempts, rxq, arrived, consumed, attempt,
                   eye_midpoint, cycle, sent, args, ret>>

\* main, lines 169-176: the coordinates handed to send_eye_coordinates
ResponseArgs(mid) == IF mid # None THEN mid ELSE NO_EYES_DETECTED

\* send_eye_coordinates, lines 79-85, on every (x, y) main can pass and
\* every frame size, worked out once
Normalized ==
    [xy \in {ResponseArgs(detect_eyes(frame)) : frame \in Frames},
     size \in FrameSizes |-> Normalize(xy[1], xy[2], size[1], size[2])]

\* send_eye_coordinates, lines 91-95
Message(data) ==
    [arbitration_id |-> 256, data |-> data, is_extended_id |-> FALSE]

\* the outcomes of send_eye_coordinates
Outcomes == {"no_camera", "no_frame", "send_error", "sent"}

\* a failed send tried again instead of returning
RetrySend(outcome) == IF outcome = "send_error" THEN "respond" ELSE "recv"
\* send_eye_coordinates returns on every path (lines 68, 74, 98, 101) and
\* main, which ignores the value, is back at recv() (lines 158-160)
AfterSend(outcome) == "recv"

\* main, lines 169-178, with send_eye_coordinates, lines 58-101:
\*   "no_camera"  the camera does not open: return False
\*   "no_frame"   the read fails: return False, the camera is not released
\*   "send_error" can_bus.send raises: caught, return False
\*   "sent"       the message is on the bus
\* size is the shape of the frame read at line 71
SendWith(outcome, size) ==
    /\ pc = "respond"
    /\ LET xy == ResponseArgs(eye_midpoint)
           n == Normalized[xy, size]
           message == Message(pack(n[1], n[2]))
           calls == IF outcome \in {"send_error", "sent"} THEN 1 ELSE 0
       IN  /\ camOpen' = IF outcome = "no_frame" THEN camOpen + 1
                         ELSE camOpen
           /\ sent' = IF outcome = "sent"
                      THEN Append(sent, [message |-> message,
                                         trigger |-> consumed,
                                         found |-> eye_midpoint # None])
                      ELSE sent
           /\ cycle' = [cycle EXCEPT
                          !.responses = IF outcome = "sent" THEN @ + 1 ELSE @,
                          !.send_calls = @ + calls,
                          !.outcome = outcome,
                          !.reported = outcome # "sent"]
    /\ pc' = AfterSend(outcome)
    /\ UNCHANGED <<system, data_id, startup, max_attempts, rxq, arrived, consumed, attempt,
                   eye_midpoint, args, ret>>

send_eye_coordinates ==
    \E outcome \in Outcomes, size \in FrameSizes : SendWith(outcome, size)

Next ==
    \/ Startup
    \/ Deliver
    \/ Recv
    \/ RecvNone
    \/ OpenCamera
    \/ LoopPass
    \/ LoopExit
    \/ send_eye_coordinates

Spec == Init /\ [][Next]_vars

\* the same machine when every call of a cycle returns: the open, the frame
\* read, the detection, the sleep and the send are steps of one sequential
\* program (lines 158-178), so a step that can be taken is taken
FairSpec ==
    /\ Spec
    /\ WF_vars(OpenCamera)
    /\ WF_vars(LoopPass)
    /\ WF_vars(LoopExit)
    /\ WF_vars(send_eye_coordinates)

-----------------------------------------------------------------------------
(* SpecEyes: process_detected_eyes applied to drawn candidates *)

\* the machine's variables, which these specifications leave alone
MachineUnused ==
    /\ system = "Linux"
    /\ data_id = DATA_ID
    /\ startup = NotStarted
    /\ max_attempts = 1
    /\ rxq = <<>>
    /\ arrived = 0
    /\ consumed = 0
    /\ attempt = 0
    /\ eye_midpoint = None
    /\ cycle = NewCycle
    /\ camOpen = 0
    /\ sent = <<>>

InitEyes ==
    /\ pc = "call_eyes"
    /\ args \in [eyes : SeqsUpTo(EyeRects, MaxEyes),
                 face_x : {0, 101}, roi_y : {24}]
    /\ ret = None
    /\ MachineUnused

ResolveEyes ==
    /\ pc = "call_eyes"
    /\ ret' = [valid |-> valid_eyes(args.eyes),
               midpoint |-> process_detected_eyes(args.eyes, args.face_x,
                                                  args.roi_y)]
    /\ pc' = "done_eyes"
    /\ UNCHANGED <<system, data_id, startup, max_attempts, rxq, arrived, consumed, attempt,
                   eye_midpoint, cycle, camOpen, sent, args>>

SpecEyes == InitEyes /\ [][ResolveEyes]_vars

-----------------------------------------------------------------------------
(* SpecNorm: lines 79-88 of send_eye_coordinates applied to drawn          *)
(* coordinates and frame sizes                                             *)

InitNorm ==
    /\ pc = "call_norm"
    /\ args \in [x : XCoords, y : YCoords, size : FrameSizes]
    /\ ret = None
    /\ MachineUnused

NormalizeAndPack ==
    /\ pc = "call_norm"
    /\ LET n == Normalize(args.x, args.y, args.size[1], args.size[2])
       IN  ret' = [normalized |-> n, data |-> pack(n[1], n[2])]
    /\ pc' = "done_norm"
    /\ UNCHANGED <<system, data_id, startup, max_attempts, rxq, arrived, consumed, attempt,
                   eye_midpoint, cycle, camOpen, sent, args>>

SpecNorm == InitNorm /\ [][NormalizeAndPack]_vars

-----------------------------------------------------------------------------
(* SpecFaces: the face loop of detect_eyes applied to drawn face lists *)

InitFaces ==
    /\ pc = "call_faces"
    /\ args \in [faces : SeqsUpTo(Faces, MaxFaces)]
    /\ ret = None
    /\ MachineUnused

ScanFaces ==
    /\ pc = "call_faces"
    /\ ret' = scan_faces(args.faces, 0)
    /\ pc' = "done_faces"
    /\ UNCHANGED <<system, data_id, startup, max_attempts, rxq, arrived, consumed, attempt,
                   eye_midpoint, cycle, camOpen, sent, args>>

SpecFaces == InitFaces /\ [][ScanFaces]_vars

-----------------------------------------------------------------------------
(* SpecRepeat: two triggers in the receive buffer, and a camera, detector  *)
(* and bus that behave in the second cycle exactly as in the first: args   *)
(* is what they do in a cycle                                              *)

\* what camera.read() of line 119 returns: a frame, or ret = False
Reads == [ok : {TRUE}, frame : Frames] \cup {[ok |-> FALSE, frame |-> NoFace]}

\* sequences over S of length n
SeqsOfLen(S, n) == [1..n -> S]

InitRepeat ==
    /\ pc = "recv"
    /\ system = "Linux"
    /\ data_id = DATA_ID
    /\ startup = [bus_ok |-> TRUE, cascades_ok |-> TRUE, camera_ok |-> TRUE]
    /\ max_attempts \in 1..MaxAttempts
    /\ rxq = <<<<TRIGGER_ID>>, <<TRIGGER_ID>>>>
    /\ arrived = 2
    /\ consumed = 0
    /\ attempt = 0
    /\ eye_midpoint = None
    /\ cycle = NewCycle
    /\ camOpen = 0
    /\ sent = <<>>
    /\ args \in [opened : BOOLEAN,
                 reads : SeqsOfLen(Reads, MaxAttempts),
                 outcome : Outcomes,
                 size : FrameSizes]
    /\ ret = None

OpenCameraAgain == OpenCameraWith(args.opened)

LoopPassAgain ==
    /\ cycle.reads < Len(args.reads)
    /\ LET r == args.reads[cycle.reads + 1] IN LoopPassWith(r.ok, r.frame)

SendAgain == SendWith(args.outcome, args.size)

NextRepeat ==
    \/ Recv
    \/ OpenCameraAgain
    \/ LoopPassAgain
    \/ LoopExit
    \/ SendAgain

SpecRepeat == InitRepeat /\ [][NextRepeat]_vars

-----------------------------------------------------------------------------
(* Properties of the trigger/response machine (Spec) *)

\* the main loop is blocked in recv() after at least one trigger's cycle
BackInRecv == pc = "recv" /\ consumed >= 1

\* C1: whenever the main loop blocks again in recv() after consuming a
\* trigger, exactly one response message was sent for that trigger, whatever
\* happened in the cycle (Found, NotFound, camera or read failures).
C1_OneResponsePerTrigger == BackInRecv => cycle.responses = 1

\* C2: the response of a cycle that ended NotFound decodes to the
\* configured sentinel ERROR_VALUES['no_eyes_detected'] = (-1, -1).
C2_NotFoundSendsSentinel ==
    \A i \in 1..Len(sent) :
        ~sent[i].found => unpack(sent[i].message.data) = NO_EYES_DETECTED

\* a step of the main loop that consumes a message that is no trigger: the
\* oldest buffered message with another arbitration ID, or None
ConsumesNonTrigger ==
    /\ pc = "recv"
    /\ \/ rxq # <<>> /\ Head(rxq)[1] # TRIGGER_ID /\ rxq' = Tail(rxq)
       \/ rxq' = rxq /\ arrived' = arrived + 1

\* C4: a message received in Idle whose arbitration ID is not the trigger
\* ID, or a None message, sends no response, opens no camera, starts no
\* detection attempt and leaves the machine in Idle.
C4_NonTriggerIgnored ==
    [][ConsumesNonTrigger =>
         /\ pc' = "recv"
         /\ UNCHANGED <<sent, camOpen, cycle, consumed, attempt,
                        eye_midpoint>>]_vars

\* C4 witness: every message delivered so far was consumed and none was a
\* trigger; the machine waits in Idle and nothing was sent.
C4_Witness ==
    /\ pc = "recv"
    /\ arrived >= 2
    /\ rxq = <<>>
    /\ consumed = 0
    /\ sent = <<>>
    /\ cycle = NewCycle

\* the detection loop returned: the camera had opened, every read
\* succeeded and no frame yielded a midpoint
LoopReturnedEmpty ==
    /\ pc \in {"respond", "recv"}
    /\ cycle.camera = "opened"
    /\ ~cycle.read_failed
    /\ cycle.first = None

\* C5: with max_detection_attempts = N >= 1, a camera that opens, reads
\* that all succeed and no midpoint in any frame, the loop makes exactly N
\* frame reads and N detection attempts and returns NotFound; at no time
\* has it made more than N.
C5_ExactlyMaxAttempts ==
    /\ cycle.reads <= max_attempts
    /\ LoopReturnedEmpty =>
          /\ cycle.reads = max_attempts
          /\ cycle.detects = max_attempts
          /\ eye_midpoint = None

\* C5 witness: a loop of at least two attempts returned NotFound.
C5_Witness ==
    /\ LoopReturnedEmpty
    /\ pc = "respond"
    /\ max_attempts >= 2
    /\ cycle.reads = max_attempts

\* C6: once an attempt of the detection loop yields a midpoint, the loop
\* reads no further frame and runs no further detection in that cycle, and
\* the outcome it returns (and main responds to) is that first midpoint.
C6_StopsOnFirstSuccess ==
    cycle.first # None =>
        /\ cycle.reads = cycle.first_at
        /\ cycle.detects = cycle.first_at
        /\ ~cycle.read_failed
        /\ eye_midpoint = cycle.first
        /\ pc = "respond" => ResponseArgs(eye_midpoint) = cycle.first

\* C6 witness: the loop returned a midpoint with attempts left in the
\* budget.
C6_Witness ==
    /\ pc = "respond"
    /\ cycle.first # None
    /\ attempt < max_attempts

\* C7: a failed frame read in the detection loop is not retried: no further
\* read or detection follows in that cycle, the outcome is NotFound, and
\* the trigger is still answered with a response.
C7_ReadFailureAnswered ==
    cycle.read_failed =>
        /\ pc \in {"respond", "recv"}
        /\ cycle.reads = cycle.detects + 1
        /\ eye_midpoint = None
        /\ pc = "recv" => cycle.responses = 1

-----------------------------------------------------------------------------
(* Properties of the normalization (SpecNorm) *)

\* r is an integer nearest to n / d (either one on a tie)
IsNearest(r, n, d) == 2 * r * d - 2 * n <= d /\ 2 * n - 2 * r * d <= d

RoundedNormalized(v, x, width) ==
    \E r \in 0..((100 * x) \div width + 1) :
        IsNearest(r, 100 * x, width) /\ v = Clamp(r)

\* C3: for a Found midpoint (x, y) and a frame of width, height > 0 the
\* payload is nx = clamp(round(x / width * 100), 0, 100) and
\* ny = clamp(round(y / height * 100), 0, 100), rounded to nearest.
C3_RoundsToNearest ==
    (pc = "done_norm" /\ args.x >= 0 /\ args.y >= 0) =>
        /\ RoundedNormalized(ret.normalized[1], args.x, args.size[1])
        /\ RoundedNormalized(ret.normalized[2], args.y, args.size[2])
        /\ unpack(ret.data) = ret.normalized

-----------------------------------------------------------------------------
(* Properties of process_detected_eyes (SpecEyes) *)

\* the aspect ratio ew / eh of a candidate lies in [0.5, 2.0]
InBounds(eye) == 2 * eye[3] >= eye[4] /\ eye[3] <= 2 * eye[4]

\* the positions in the detector's output of the candidates in bounds
InBoundsAt == {i \in 1..Len(args.eyes) : InBounds(args.eyes[i])}

\* C8: process_detected_eyes returns None when the number of candidates
\* passing the aspect-ratio filter is 0 or at least 3, and a midpoint
\* exactly when it is 1 or 2.
C8_MidpointIffOneOrTwo ==
    pc = "done_eyes" =>
        (ret.midpoint # None <=> Cardinality(InBoundsAt) \in {1, 2})

\* C8 witness: three candidates pass the filter and the face yields None.
C8_Witness ==
    /\ pc = "done_eyes"
    /\ Cardinality(InBoundsAt) >= 3
    /\ Len(args.eyes) > Cardinality(InBoundsAt)
    /\ ret.midpoint = None

Range(s) == {s[i] : i \in 1..Len(s)}

\* C9: a candidate is valid iff 0.5 <= ew / eh <= 2.0, both bounds
\* inclusive; candidates outside the bounds change neither the valid count
\* nor the midpoint.
C9_ValidIffInBounds ==
    pc = "done_eyes" =>
        /\ Range(ret.valid) = {args.eyes[i] : i \in InBoundsAt}
        /\ Len(ret.valid) = Cardinality(InBoundsAt)
        /\ ret.midpoint = process_detected_eyes(SelectSeq(args.eyes, InBounds),
                                                args.face_x, args.roi_y)

\* C9 witness: a candidate on the lower bound and one on the upper bound
\* are the two valid eyes, and a candidate out of bounds was dropped.
C9_Witness ==
    /\ pc = "done_eyes"
    /\ Len(ret.valid) = 2
    /\ \E e \in Range(ret.valid) : 2 * e[3] = e[4]
    /\ \E e \in Range(ret.valid) : e[3] = 2 * e[4]
    /\ \E e \in Range(args.eyes) : ~InBounds(e)
    /\ ret.midpoint # None

\* the full-frame center of the candidate at position i
CenterAt(i) ==
    <<args.face_x + args.eyes[i][1] + args.eyes[i][3] \div 2,
      args.roi_y + args.eyes[i][2] + args.eyes[i][4] \div 2>>

Reverse(s) == [i \in 1..Len(s) |-> s[Len(s) + 1 - i]]

\* C10: for exactly two valid eyes the midpoint is the componentwise floor
\* average of their centers, for exactly one it is that eye's center, and
\* the result is the same when the detector returns the candidates in the
\* opposite order.
C10_MidpointOfCenters ==
    pc = "done_eyes" =>
        /\ \A i, j \in InBoundsAt :
              (i < j /\ Cardinality(InBoundsAt) = 2) =>
                  ret.midpoint =
                      <<(CenterAt(i)[1] + CenterAt(j)[1]) \div 2,
                        (CenterAt(i)[2] + CenterAt(j)[2]) \div 2>>
        /\ \A i \in InBoundsAt :
              Cardinality(InBoundsAt) = 1 => ret.midpoint = CenterAt(i)
        /\ ret.midpoint = process_detected_eyes(Reverse(args.eyes),
                                                args.face_x, args.roi_y)

\* C10 witness: two valid eyes, returned right eye first, whose centers
\* have odd sums, so that the floor shows.
C10_Witness ==
    /\ pc = "done_eyes"
    /\ \E i, j \in InBoundsAt :
          /\ i < j
          /\ Cardinality(InBoundsAt) = 2
          /\ args.eyes[i][1] > args.eyes[j][1]
          /\ (CenterAt(i)[1] + CenterAt(j)[1]) % 2 = 1
          /\ (CenterAt(i)[2] + CenterAt(j)[2]) % 2 = 1
          /\ ret.midpoint # CenterAt(i)

-----------------------------------------------------------------------------
(* Properties of two cycles with the same camera, detector and bus         *)
(* behaviour (SpecRepeat)                                                  *)

\* C11: two triggers processed one after the other, with the same camera
\* frames and detector output in both cycles, produce two responses with
\* the same payload: nothing of the first cycle influences the second.
C11_SameInputsSamePayload ==
    Len(sent) = 2 =>
        /\ sent[1].message.data = sent[2].message.data
        /\ sent[1].found = sent[2].found

\* both cycles answered, each after a failed first attempt and a midpoint
\* on the second
C11_Witness ==
    /\ Len(sent) = 2
    /\ sent[1].found
    /\ sent[2].found
    /\ sent[2].trigger = 2
    /\ cycle.first_at = 2

-----------------------------------------------------------------------------
(* Further properties of the trigger/response machine (Spec) *)

\* C12: every response message is sent with the configured data ID
\* (CAN_CONFIG['data_id']) as its arbitration ID and as a standard,
\* non-extended ID, whatever value data_id is configured with.
C12_ConfiguredDataId ==
    \A i \in 1..Len(sent) :
        /\ sent[i].message.arbitration_id = data_id
        /\ ~sent[i].message.is_extended_id

\* C15: the process is never in Idle (blocked in recv() for a trigger)
\* unless both the CAN bus and the camera could be opened at startup.
C15_IdleOnlyAfterBusAndCamera ==
    pc = "recv" => startup.bus_ok /\ startup.camera_ok

\* C16: at most one camera handle is open at any time and none is open
\* while the machine waits for a trigger: every opened handle is released
\* before the next open and before the return to Idle.
C16_CameraReleased ==
    /\ camOpen <= 1
    /\ pc = "recv" => camOpen = 0

\* C19: a cycle that finds a midpoint on its k-th attempt has taken exactly
\* k-1 delays when the response is about to be sent: no delay follows the
\* successful attempt.
C19_NoDelayAfterSuccess ==
    (pc = "respond" /\ eye_midpoint # None) => cycle.sleeps = attempt - 1
\* a detection cycle is running: Detecting or Responding
Busy == {"detect", "loop", "respond"}

C14_SendFailureBackToIdle ==
    /\ [](cycle.outcome = "send_error" =>
            /\ pc = "recv"
            /\ cycle.reported
            /\ cycle.send_calls = 1
            /\ cycle.responses = 0)
    /\ [][(cycle.outcome = "send_error" /\ rxq # <<>>
            /\ IsTrigger(Head(rxq)) /\ rxq' = Tail(rxq)) =>
            /\ pc' = "detect"
            /\ consumed' = consumed + 1
            /\ cycle' = NewCycle]_vars

\* the send of the first cycle failed, the machine is back in recv() and
\* the next trigger is in the buffer
C14_Witness ==
    /\ cycle.outcome = "send_error"
    /\ pc = "recv"
    /\ consumed = 1
    /\ sent = <<>>
    /\ rxq # <<>>
    /\ IsTrigger(Head(rxq))

-----------------------------------------------------------------------------
(* Termination of a cycle (FairSpec) *)

-----------------------------------------------------------------------------
(* Properties of the face loop of detect_eyes (SpecFaces) *)

\* what process_detected_eyes yields for the i-th face of a list
YieldOf(faces, i) ==
    process_detected_eyes(faces[i].eyes, faces[i].rect[1], RoiY(faces[i].rect))

\* C17: faces are examined in detector-return order and detect_eyes returns
\* the midpoint of the first face for which process_detected_eyes yields
\* one: a face that yields None does not end the scan, the faces after the
\* first yielding one are not examined, and the result is None only if
\* every face yields None.
C17_FirstYieldingFace ==
    pc = "done_faces" =>
        LET faces == args.faces
            yielding == {i \in 1..Len(faces) : YieldOf(faces, i) # None}
        IN  IF yielding = {}
            THEN ret.midpoint = None /\ ret.examined = Len(faces)
            ELSE LET k == CHOOSE i \in yielding : \A j \in yielding : i <= j
                 IN  /\ ret.midpoint = YieldOf(faces, k)
                     /\ ret.examined = k

\* two faces that yield None, then two that yield different midpoints: the
\* first of these is returned and the last face is not examined
C17_Witness ==
    /\ pc = "done_faces"
    /\ Len(args.faces) = 3
    /\ YieldOf(args.faces, 1) = None
    /\ YieldOf(args.faces, 2) # None
    /\ YieldOf(args.faces, 3) # None
    /\ YieldOf(args.faces, 3) # YieldOf(args.faces, 2)
    /\ ret.midpoint = YieldOf(args.faces, 2)
    /\ ret.examined = 2

-----------------------------------------------------------------------------
(* A further property of the normalisation (SpecNorm) *)

\* C20: the payload send_eye_coordinates packs decodes to two integers that
\* both lie in 0..100, for every (x, y) it is called with, negative values
\* and values beyond the frame's width or height included.
C20_PayloadInRange ==
    pc = "done_norm" =>
        /\ unpack(ret.data)[1] \in 0..100
        /\ unpack(ret.data)[2] \in 0..100

\* a negative x and a y beyond the frame height, sent as (0, 100)
C20_Witness ==
    /\ pc = "done_norm"
    /\ args.x < 0
    /\ args.y > args.size[2]
    /\ unpack(ret.data) = <<0, 100>>

=============================================================================
